---- MODULE Spec2Model ----
(***************************************************************************)
(* The paginated record-import and de-duplication pipeline of gearjot-poc: *)
(* the two GET import route handlers (src/unnamed/part_000, the route that *)
(* classifies actions through RECORD_ACTIONS, called route "A" here, and   *)
(* src/unnamed/part_001, the route that knows only "get-objects", called   *)
(* route "B"), the record store they write to, and the external source     *)
(* they page through; and sendToWebhook, the forwarder that shares their   *)
(* classification of record types (src/src/components/ui/toast.tsx).       *)
(*                                                                         *)
(* Spec runs the imports one at a time; SpecTenants and SpecAnyKey do the  *)
(* same for two authenticated tenants and for action keys off the naming   *)
(* convention; SpecConcurrent lets two imports overlap; SpecFair serves    *)
(* one request whose awaits resolve; SpecWebhook is one call of            *)
(* sendToWebhook.                                                          *)
(*                                                                         *)
(* One action of the model is the resolution of one `await` of the handler *)
(* together with the synchronous code that follows it up to the next       *)
(* `await` (JavaScript runs that code without interruption).               *)
(***************************************************************************)
EXTENDS Bags, FiniteSets, Integers, Sequences, TLC

(***************************************************************************)
(* Bounds of the model.                                                    *)
(***************************************************************************)
\* number of import invocations in one behaviour
MaxInvocations ==
    2

\* number of pages of a scripted source
MaxPages ==
    3

\* number of external action calls one invocation may issue in the model
\* (only a source whose cursor never ends reaches it)
MaxCalls ==
    3

(***************************************************************************)
(* JavaScript values.                                                      *)
(***************************************************************************)
\* null / undefined: a value that is no string of the program
NULL ==
    "<null>"

\* !!v for a string-or-null value
Truthy(v) ==
    v # NULL /\ v # ""

\* String.prototype.startsWith
StartsWith(s, prefix) ==
    /\ Len(s) >= Len(prefix)
    /\ SubSeq(s, 1, Len(prefix)) = prefix

\* String.prototype.substring(n): the string from 0-based index n on
Substring(s, n) ==
    SubSeq(s, n + 1, Len(s))

\* String.prototype.replace(pat, rep) with a string pattern: the first
\* occurrence only
Replace(s, pat, rep) ==
    LET hits == { i \in 1..(Len(s) - Len(pat) + 1) :
                      SubSeq(s, i, i + Len(pat) - 1) = pat }
    IN  IF hits = {} THEN s
        ELSE LET i == CHOOSE j \in hits : \A k \in hits : j <= k
             IN  SubSeq(s, 1, i - 1) \o rep \o SubSeq(s, i + Len(pat), Len(s))

(***************************************************************************)
(* Configuration and inputs.                                               *)
(***************************************************************************)
RECORD_ACTIONS ==
    << [key |-> "get-equipment", name |-> "Equipment", type |-> "default"] >>

Procs ==
    {1, 2}

Routes ==
    {"A", "B"}

CustomerIds ==
    {"custA", "custB"}

ActionKeys ==
    {"get-equipment", "get-objects", "get-widgets"}

InstanceKeys ==
    {"widgets"}

\* action keys off the naming convention: the bare prefix, and a key
\* without the prefix
OddActionKeys ==
    {"get-", "list-equipment"}

\* an instance key that is the key of a default action
OddInstanceKeys ==
    {"get-equipment"}

\* what connections.find() may list for a tenant
ConnectionLists ==
    { <<>>, <<"conn2", "conn1">> }

\* raw records of the external source: two versions of one record, a
\* record without a name, and a record that carries a tenant and a type of
\* its own
Pump ==
    [id |-> "e1", name |-> "Pump", fields |-> "v1"]

PumpV2 ==
    [id |-> "e1", name |-> "Pump", fields |-> "v2"]

NoName ==
    [id |-> "e2", fields |-> "v1"]

Foreign ==
    [id |-> "e3", name |-> "", fields |-> "v1",
     customerId |-> "custB", recordType |-> "get-equipment"]

\* The kinds of source: the pages of a source repeat the cycle of its kind,
\* and `end` is how the kind says that no page follows: no cursor, or an
\* empty one.
Patterns ==
    { [ cycle |-> << <<Pump, NoName>>, <<Foreign>> >>,   end |-> NULL ],
      [ cycle |-> << <<>>, <<PumpV2, Pump>> >>,          end |-> "" ] }

CursorNames ==
    << "c1", "c2", "c3", "c4", "c5" >>

\* A scripted source: page k is returned for the cursor the source gave out
\* with page k-1 (page 1 for the null cursor); the last page comes with the
\* cursor `last`: the end of the kind, or (a source whose cursor never ends)
\* the cursor that asks for the last page again.
Script(pat, n, c) ==
    [ pages |-> [ k \in 1..n |-> pat.cycle[((k - 1) % Len(pat.cycle)) + 1] ],
      last  |-> c ]

Scripts ==
    UNION { { Script(pat, n, pat.end) : pat \in Patterns } \cup
            { Script(pat, n, CursorNames[n - 1]) : pat \in { q \in Patterns : n > 1 } } :
            n \in 1..MaxPages }

PageIndex(cursor) ==
    IF cursor = NULL THEN 1
    ELSE 1 + (CHOOSE j \in 1..Len(CursorNames) : CursorNames[j] = cursor)

\* result.output of one run of the external action; a page without records
\* comes without the records property
Output(script, cursor) ==
    LET k    == PageIndex(cursor)
        next == IF k < Len(script.pages) THEN CursorNames[k] ELSE script.last
    IN  IF script.pages[k] = <<>> THEN [ cursor |-> next ]
        ELSE [ records |-> script.pages[k], cursor |-> next ]

VARIABLES
    store,      \* the Record collection: a bag of documents
    inv,        \* per request slot: the handler's position, request and locals
    source,     \* the external source's script
    started,    \* number of invocations started so far
    last,       \* summary of the invocation the slot served before
    hook        \* the call of sendToWebhook under way, its locals and its outcome

vars == << store, inv, source, started, last, hook >>


(***************************************************************************)
(* Action classification and record normalisation.                         *)
(***************************************************************************)
\* Defect variant of defaultFormTypes: the keys keep their prefix.
defaultFormTypesWithPrefix ==
    { RECORD_ACTIONS[k].key :
          k \in { j \in 1..Len(RECORD_ACTIONS) : RECORD_ACTIONS[j].type = "default" } }

\* route A: the default form types, from RECORD_ACTIONS
defaultFormTypes ==
    { Replace(RECORD_ACTIONS[k].key, "get-", "") :
          k \in { j \in 1..Len(RECORD_ACTIONS) : RECORD_ACTIONS[j].type = "default" } }

\* route A: the form id of an action key
formId(actionKey) ==
    IF StartsWith(actionKey, "get-") THEN Substring(actionKey, 4) ELSE NULL

\* route A: formId && !defaultFormTypes.includes(formId)
isCustomFormA(actionKey) ==
    /\ Truthy(formId(actionKey))
    /\ formId(actionKey) \notin defaultFormTypes

\* route B: only the get-objects action is a custom one
isCustomFormB(actionKey) ==
    actionKey = "get-objects"

isCustomForm(route, actionKey) ==
    IF route = "A" THEN isCustomFormA(actionKey) ELSE isCustomFormB(actionKey)

\* a property of a JavaScript object, undefined when it has none
Get(obj, k) ==
    IF k \in DOMAIN obj THEN obj[k] ELSE NULL

\* a || b
Or(a, b) ==
    IF Truthy(a) THEN a ELSE b

\* Defect variant of RecordType: the instance key is never used.
RecordTypeAlwaysActionKey(route, actionKey, instanceKey) ==
    actionKey

\* result.output.records || []
RecordsOf(result) ==
    IF "records" \in DOMAIN result THEN result.records ELSE <<>>

\* the recordType stamped on the records of a request
RecordType(route, actionKey, instanceKey) ==
    IF isCustomForm(route, actionKey) THEN instanceKey ELSE actionKey

\* route A: one element of recordsToSave
NormalizeA(record, customerId, recordType) ==
    [ name       |-> Or(Get(record, "name"), Or(Get(record, "id"), "Unnamed Record")),
      customerId |-> customerId,
      recordType |-> recordType ] @@ record

\* route B: one element of recordsToSave (the name is left as it came)
NormalizeB(record, customerId, recordType) ==
    [ customerId |-> customerId,
      recordType |-> recordType ] @@ record

\* Defect variant of Normalize: the properties of the raw record are spread
\* last, so its own customerId and recordType win.
NormalizeRawLast(route, record, customerId, recordType) ==
    record @@ (IF route = "A" THEN NormalizeA(record, customerId, recordType)
               ELSE NormalizeB(record, customerId, recordType))

Normalize(route, record, customerId, recordType) ==
    IF route = "A" THEN NormalizeA(record, customerId, recordType)
    ELSE NormalizeB(record, customerId, recordType)

(***************************************************************************)
(* The Record collection.                                                  *)
(***************************************************************************)
\* the attributes of a stored record
RecordSchema ==
    {"id", "name", "fields", "recordType", "customerId"}

\* the document Record.create(record) stores
Document(record) ==
    [ k \in DOMAIN record \cap RecordSchema |-> record[k] ]

\* Defect variant of Query: the lookup also compares the fields of the record.
QueryWithFields(record, customerId) ==
    [ id         |-> Get(record, "id"),
      customerId |-> customerId,
      recordType |-> record.recordType,
      fields     |-> Get(record, "fields") ]

\* Defect variant of Query: the lookup takes the record's name for its id.
QueryByName(record, customerId) ==
    [ id         |-> Get(record, "name"),
      customerId |-> customerId,
      recordType |-> record.recordType ]

\* the filter of Record.findOne
Query(record, customerId) ==
    [ id         |-> Get(record, "id"),
      customerId |-> customerId,
      recordType |-> record.recordType ]

Matches(doc, query) ==
    \A k \in DOMAIN query : Get(doc, k) = query[k]

\* Record.findOne(query) finds a document
FindOne(docs, query) ==
    \E doc \in BagToSet(docs) : Matches(doc, query)

\* Defect variant of Create: a stored record with the same id is replaced.
CreateOrReplace(docs, record) ==
    LET kept == { d \in BagToSet(docs) : Get(d, "id") # Get(record, "id") }
    IN  [ d \in kept |-> CopiesIn(d, docs) ] (+) SetToBag({Document(record)})

\* Defect variant of Create: a record whose key is in the collection is not
\* stored again.
CreateUnlessPresent(docs, record) ==
    IF \E d \in BagToSet(docs) :
          /\ Get(d, "id") = Get(record, "id")
          /\ Get(d, "customerId") = Get(record, "customerId")
          /\ Get(d, "recordType") = Get(record, "recordType")
    THEN docs
    ELSE docs (+) SetToBag({Document(record)})

\* Record.create(record)
Create(docs, record) ==
    docs (+) SetToBag({Document(record)})

(***************************************************************************)
(* Responses.                                                              *)
(***************************************************************************)
Unauthorized ==
    [ status |-> 401, body |-> [error |-> "Unauthorized"] ]

ActionKeyRequired ==
    [ status |-> 400, body |-> [error |-> "Action key is required"] ]

InstanceKeyRequired(route) ==
    [ status |-> 400,
      body   |-> [error |-> IF route = "A"
                            THEN "Instance key is required for custom forms"
                            ELSE "Instance key is required for get-objects action"] ]

NoConnection ==
    [ status |-> 200, body |-> [success |-> FALSE, error |-> "No connection found"] ]

\* Defect variant of Summary: only the last page is counted.
SummaryOfLastPage(l) ==
    [ status |-> 200,
      body   |-> [ success              |-> TRUE,
                   recordsCount         |-> Len(RecordsOf(l.result)),
                   newRecordsCount      |-> l.newRecordsCount,
                   existingRecordsCount |-> l.existingRecordsCount ] ]

Summary(l) ==
    [ status |-> 200,
      body   |-> [ success              |-> TRUE,
                   recordsCount         |-> Len(l.allRecords),
                   newRecordsCount      |-> l.newRecordsCount,
                   existingRecordsCount |-> l.existingRecordsCount ] ]

\* route A also passes the message of the error on
InternalError(route) ==
    [ status |-> 500,
      body   |-> IF route = "A"
                 THEN [error |-> "Internal Server Error", details |-> "error.message"]
                 ELSE [error |-> "Internal Server Error"] ]

(***************************************************************************)
(* The webhook forwarder: sendToWebhook.                                   *)
(***************************************************************************)
WEBHOOK_URLS ==
    [ contacts  |-> "https://api.integration.app/webhooks/app-events/4940cec8-9d47-41dd-8d8a-43c6741b048d",
      companies |-> "https://api.integration.app/webhooks/app-events/0502c111-b765-47fd-94cc-450b93bd9e5c",
      custom    |-> "https://api.integration.app/webhooks/app-events/edd3514f-9d77-4ecf-bf3e-376fd8b10b14" ]

\* the forwarder's defaultFormTypes: the keys of the default actions, with
\* their "get-" prefix
webhookDefaultFormTypes ==
    { RECORD_ACTIONS[k].key :
          k \in { j \in 1..Len(RECORD_ACTIONS) : RECORD_ACTIONS[j].type = "default" } }

\* const recordType = payload.instanceKey || ""
recordTypeOf(payload) ==
    Or(Get(payload, "instanceKey"), "")

isDefaultType(payload) ==
    recordTypeOf(payload) \in webhookDefaultFormTypes

\* the selection of the endpoint
webhookUrl(payload) ==
    LET webhookKey == Replace(recordTypeOf(payload), "get-", "")
    IN  IF isDefaultType(payload) /\ webhookKey \in DOMAIN WEBHOOK_URLS
        THEN WEBHOOK_URLS[webhookKey]
        ELSE WEBHOOK_URLS.custom

\* Defect variant of finalPayload: the body is built anew from the fields the
\* forwarder knows.
finalPayloadRebuilt(payload) ==
    [ type       |-> Get(payload, "type"),
      customerId |-> Get(payload, "customerId"),
      instanceKey |-> recordTypeOf(payload) ]

\* the body that is posted
finalPayload(payload) ==
    IF ~isDefaultType(payload)
    THEN [ instanceKey |-> recordTypeOf(payload) ] @@ payload
    ELSE payload

\* the payloads of the model: the event of a record, with or without an
\* instance key
HookInstanceKeys ==
    {"", "widgets", "get-equipment", "get-widgets", "equipment"}

Payloads ==
    LET base == { [ type       |-> t,
                    data       |-> [ id |-> "e1", recordType |-> "record-type",
                                     fields |-> "v1" ],
                    customerId |-> c ] :
                      t \in {"created", "updated", "deleted"}, c \in CustomerIds }
    IN  base \cup { [instanceKey |-> k] @@ b : k \in HookInstanceKeys, b \in base }

\* no call of sendToWebhook is under way
HookIdle ==
    [ pc |-> "idle", posts |-> <<>> ]


(***************************************************************************)
(* The handler.                                                            *)
(***************************************************************************)
\* a request slot that serves no request
Idle ==
    [ pc                   |-> "idle",
      route                |-> "A",
      customerId           |-> NULL,
      actionKey            |-> NULL,
      instanceKey          |-> NULL,
      firstConnection      |-> NULL,
      allRecords           |-> <<>>,
      hasMoreRecords       |-> TRUE,
      currentCursor        |-> NULL,
      newRecordsCount      |-> 0,
      existingRecordsCount |-> 0,
      result               |-> [cursor |-> NULL],
      recordsToSave        |-> <<>>,
      i                    |-> 0,
      response             |-> [status |-> 0],
      \* history of the invocation, read by no step of the handler
      log                  |-> <<>>,   \* the calls issued and what they resolved to
      listing              |-> <<>>,   \* << items >> once connections.find resolved
      inserted             |-> <<>>,   \* the documents it created
      store0               |-> EmptyBag,   \* the collection when it started
      n                    |-> 0 ]     \* its number among the invocations

\* return NextResponse.json(...)
Return(l, response) ==
    [ l EXCEPT !.pc = "done", !.response = response ]

\* the catch block: any error thrown in the handler
Catch(l) ==
    Return(l, InternalError(l.route))

\* client.connection(firstConnection.id).action(...).run({cursor}) is issued
IssueRun(l) ==
    [ l EXCEPT !.pc  = "run",
               !.log = Append(@, [ op          |-> "run",
                                   connection  |-> l.firstConnection,
                                   actionKey   |-> l.actionKey,
                                   instanceKey |-> Or(l.instanceKey, NULL),
                                   cursor      |-> l.currentCursor ]) ]

\* Record.findOne is issued for recordsToSave[i]
IssueFindOne(l, i) ==
    [ l EXCEPT !.pc  = "findOne",
               !.i   = i,
               !.log = Append(@, [op |-> "findOne"]
                                 @@ Query(l.recordsToSave[i], l.customerId)) ]

\* Record.create is issued for recordsToSave[i]
IssueCreate(l) ==
    [ l EXCEPT !.pc  = "create",
               !.log = Append(@, [op |-> "create", record |-> l.recordsToSave[l.i]]) ]

\* Defect variant of EndOfPage: a page without records ends the loop.
EndOfPageStopsWhenEmpty(l) ==
    LET l1 == [ l EXCEPT !.currentCursor  = l.result.cursor,
                         !.hasMoreRecords = Truthy(l.result.cursor)
                                            /\ Len(RecordsOf(l.result)) > 0 ]
    IN  IF l1.hasMoreRecords THEN IssueRun(l1) ELSE Return(l1, Summary(l1))

\* Defect variant of EndOfPage: the loop has a cap of two pages.
EndOfPageWithCap(l) ==
    LET calls == Cardinality({ k \in 1..Len(l.log) : l.log[k].op = "run" })
        l1    == [ l EXCEPT !.currentCursor  = l.result.cursor,
                            !.hasMoreRecords = Truthy(l.result.cursor) /\ calls < 2 ]
    IN  IF l1.hasMoreRecords THEN IssueRun(l1) ELSE Return(l1, Summary(l1))

\* the end of one pass of the while loop: take the cursor of the page, then
\* fetch the next page or return the summary
EndOfPage(l) ==
    LET l1 == [ l EXCEPT !.currentCursor  = l.result.cursor,
                         !.hasMoreRecords = Truthy(l.result.cursor) ]
    IN  IF l1.hasMoreRecords THEN IssueRun(l1) ELSE Return(l1, Summary(l1))

\* Defect variant of NextRecord: the last record of a page is left out.
NextRecordButLast(l) ==
    IF l.i < Len(l.recordsToSave) - 1 THEN IssueFindOne(l, l.i + 1) ELSE EndOfPage(l)

\* the end of one pass of the for loop over recordsToSave
NextRecord(l) ==
    IF l.i < Len(l.recordsToSave) THEN IssueFindOne(l, l.i + 1) ELSE EndOfPage(l)

\* the model stops an invocation that would issue more than MaxCalls calls
WithinBounds(l) ==
    Cardinality({ k \in 1..Len(l.log) : l.log[k].op = "run" }) <= MaxCalls

\* Defect variant of Validate: the instance key of a custom action is not
\* checked.
ValidateWithoutInstanceKey(l) ==
    IF ~Truthy(l.customerId) THEN Return(l, Unauthorized)
    ELSE IF ~Truthy(l.actionKey) THEN Return(l, ActionKeyRequired)
    ELSE [ l EXCEPT !.pc  = "connect",
                    !.log = Append(@, [op |-> "connections.find"]) ]

\* Defect variant of Validate: the action key is checked before the caller.
ValidateActionKeyFirst(l) ==
    IF ~Truthy(l.actionKey) THEN Return(l, ActionKeyRequired)
    ELSE IF ~Truthy(l.customerId) THEN Return(l, Unauthorized)
    ELSE IF isCustomForm(l.route, l.actionKey) /\ ~Truthy(l.instanceKey)
         THEN Return(l, InstanceKeyRequired(l.route))
    ELSE [ l EXCEPT !.pc  = "connect",
                    !.log = Append(@, [op |-> "connections.find"]) ]

\* the handler is entered with a request and runs up to its first await; the
\* three awaits that lead to the connection listing count as one
Validate(l) ==
    IF ~Truthy(l.customerId) THEN Return(l, Unauthorized)
    ELSE IF ~Truthy(l.actionKey) THEN Return(l, ActionKeyRequired)
    ELSE IF isCustomForm(l.route, l.actionKey) /\ ~Truthy(l.instanceKey)
         THEN Return(l, InstanceKeyRequired(l.route))
    ELSE [ l EXCEPT !.pc  = "connect",
                    !.log = Append(@, [op |-> "connections.find"]) ]

\* the lowest request slot among the free ones serves the next request
FreeSlot(p) ==
    /\ inv[p].pc \in {"idle", "done"}
    /\ \A q \in Procs : q < p => inv[q].pc \notin {"idle", "done"}

\* no other invocation is under way
NoOverlap(p) ==
    \A q \in Procs \ {p} : inv[q].pc = "idle"

\* what the caller keeps of the invocation it made before: the request, the
\* records seen and the recordsCount of a successful import, nothing of any
\* other outcome
Finished(l) ==
    IF l.pc = "done" /\ l.response.status = 200 /\ l.response.body.success
    THEN [ success     |-> TRUE,
           route       |-> l.route,
           customerId  |-> l.customerId,
           actionKey   |-> l.actionKey,
           instanceKey |-> l.instanceKey,
           allRecords   |-> l.allRecords,
           recordsCount |-> l.response.body.recordsCount ]
    ELSE [ success |-> FALSE ]

\* the handler is called with a request: the route, the caller the
\* authentication yields, and the action and instanceKey parameters
Request(p, route, customerId, actionKey, instanceKey) ==
    /\ started < MaxInvocations
    /\ FreeSlot(p)
    /\ inv' = [ inv EXCEPT ![p] =
                 Validate([ Idle EXCEPT !.route       = route,
                                        !.customerId  = customerId,
                                        !.actionKey   = actionKey,
                                        !.instanceKey = instanceKey,
                                        !.store0      = store,
                                        !.n           = started + 1 ]) ]
    /\ started' = started + 1
    /\ last' = Finished(inv[p])
    /\ UNCHANGED << store, source, hook >>

GET(p) ==
    \E route \in Routes,
       customerId \in CustomerIds \cup {NULL},
       actionKey \in ActionKeys \cup {NULL},
       instanceKey \in InstanceKeys \cup {NULL} :
         Request(p, route, customerId, actionKey, instanceKey)

\* Defect variant of FirstConnection: the missing connection is not noticed
\* and the loop starts without one.
FirstConnectionUnchecked(l, items) ==
    IssueRun([ l EXCEPT !.firstConnection = IF items = <<>> THEN NULL ELSE items[1] ])

\* const firstConnection = connectionsResponse.items?.[0], and what follows
FirstConnection(l, items) ==
    IF items = <<>> THEN Return(l, NoConnection)
    ELSE IssueRun([ l EXCEPT !.firstConnection = items[1] ])

\* connectToDatabase, getIntegrationClient and connections.find resolve
ConnectionsFind(p) ==
    /\ inv[p].pc = "connect"
    /\ \E items \in ConnectionLists :
         inv' = [ inv EXCEPT ![p] =
                    FirstConnection([ inv[p] EXCEPT !.listing = << items >> ], items) ]
    /\ UNCHANGED << store, source, started, last, hook >>

\* the external action call resolves with a page
RunAction(p) ==
    /\ inv[p].pc = "run"
    /\ LET result  == Output(source, inv[p].currentCursor)
           records == RecordsOf(result)
           l       == [ inv[p] EXCEPT
                          !.log           = Append(@, [ op      |-> "page",
                                                        records |-> Len(records),
                                                        cursor  |-> result.cursor ]),
                          !.result        = result,
                          !.allRecords    = @ \o records,
                          !.recordsToSave =
                              [ k \in 1..Len(records) |->
                                  Normalize(inv[p].route, records[k], inv[p].customerId,
                                            RecordType(inv[p].route, inv[p].actionKey,
                                                       inv[p].instanceKey)) ] ]
           l2      == IF Len(records) > 0 THEN IssueFindOne(l, 1) ELSE EndOfPage(l)
       IN  /\ WithinBounds(l2)
           /\ inv' = [ inv EXCEPT ![p] = l2 ]
    /\ UNCHANGED << store, source, started, last, hook >>

\* Record.findOne resolves
RecordFindOne(p) ==
    /\ inv[p].pc = "findOne"
    /\ LET existingRecord == FindOne(store, Query(inv[p].recordsToSave[inv[p].i],
                                                  inv[p].customerId))
           l  == [ inv[p] EXCEPT !.log = Append(@, [ op    |-> "findOne.result",
                                                     found |-> existingRecord ]) ]
           l2 == IF existingRecord
                 THEN NextRecord([ l EXCEPT !.existingRecordsCount = @ + 1 ])
                 ELSE IssueCreate(l)
       IN  /\ WithinBounds(l2)
           /\ inv' = [ inv EXCEPT ![p] = l2 ]
    /\ UNCHANGED << store, source, started, last, hook >>

\* Record.create resolves
RecordCreate(p) ==
    /\ inv[p].pc = "create"
    /\ LET l  == [ inv[p] EXCEPT !.log = Append(@, [op |-> "create.result"]) ]
           l2 == NextRecord([ l EXCEPT !.newRecordsCount = @ + 1,
                                       !.inserted = Append(@, Document(l.recordsToSave[l.i])) ])
       IN  /\ WithinBounds(l2)
           /\ inv' = [ inv EXCEPT ![p] = l2 ]
           /\ store' = Create(store, l.recordsToSave[l.i])
    /\ UNCHANGED << source, started, last, hook >>

\* Defect variant of Throw: the failure undoes what the invocation inserted.
ThrowAndRollBack(p) ==
    /\ inv[p].pc \in {"connect", "run", "findOne", "create"}
    /\ inv' = [ inv EXCEPT ![p] =
                 Catch([ inv[p] EXCEPT !.log = Append(@, [ op |-> "throw",
                                                           at |-> inv[p].pc ]) ]) ]
    /\ store' = inv[p].store0
    /\ UNCHANGED << source, started, last, hook >>

\* an await of the handler rejects: the connection lookup, the external
\* call or a store operation throws
Throw(p) ==
    /\ inv[p].pc \in {"connect", "run", "findOne", "create"}
    /\ inv' = [ inv EXCEPT ![p] =
                 Catch([ inv[p] EXCEPT !.log = Append(@, [ op |-> "throw",
                                                           at |-> inv[p].pc ]) ]) ]
    /\ UNCHANGED << store, source, started, last, hook >>

Init ==
    /\ store = EmptyBag
    /\ inv = [ p \in Procs |-> Idle ]
    /\ source \in Scripts
    /\ started = 0
    /\ last = Finished(Idle)
    /\ hook = HookIdle

Step(p) ==
    \/ ConnectionsFind(p)
    \/ RunAction(p)
    \/ RecordFindOne(p)
    \/ RecordCreate(p)
    \/ Throw(p)

\* import invocations run one at a time
Next ==
    \E p \in Procs :
        \/ NoOverlap(p) /\ GET(p)
        \/ Step(p)

Spec ==
    Init /\ [][Next]_vars

(***************************************************************************)
(* Imports that overlap: the requests are served as they come, and the     *)
(* awaits of the invocations under way resolve in any order. The requests  *)
(* are those of one tenant for one record type.                            *)
(***************************************************************************)
\* the requests of the overlapping imports
RaceRequest(l) ==
    /\ l.customerId = "custA"
    /\ l.actionKey = "get-equipment"
    /\ l.instanceKey = NULL

\* each request slot serves one request, whatever the other slot is at
NextConcurrent ==
    \E p \in Procs :
        \/ inv[p].pc = "idle" /\ GET(p) /\ RaceRequest(inv'[p])
        \/ Step(p)

SpecConcurrent ==
    Init /\ [][NextConcurrent]_vars

(***************************************************************************)
(* Fairness: an awaited call that does not fail resolves, and the handler  *)
(* then runs on to its next await. Nothing says that a call fails.         *)
(***************************************************************************)
\* an await of the handler resolves without an error
Progress(p) ==
    \/ ConnectionsFind(p)
    \/ RunAction(p)
    \/ RecordFindOne(p)
    \/ RecordCreate(p)

\* one request is served
NextSingle ==
    \E p \in Procs :
        \/ NoOverlap(p) /\ inv[p].pc = "idle" /\ GET(p)
        \/ Step(p)

SpecFair ==
    /\ Init
    /\ [][NextSingle]_vars
    /\ \A p \in Procs : WF_vars(Progress(p))

(***************************************************************************)
(* Imports of one tenant, one at a time, whose action key is any string,   *)
(* on or off the naming convention, and whose instance key, when there is  *)
(* one, is the key of a default action.                                    *)
(***************************************************************************)
GETAnyKey(p) ==
    \E route \in Routes,
       actionKey \in ActionKeys \cup OddActionKeys,
       instanceKey \in OddInstanceKeys \cup {NULL} :
         Request(p, route, "custA", actionKey, instanceKey)

NextAnyKey ==
    \E p \in Procs :
        \/ NoOverlap(p) /\ GETAnyKey(p)
        \/ Step(p)

SpecAnyKey ==
    Init /\ [][NextAnyKey]_vars

(***************************************************************************)
(* Imports of the two tenants, one at a time: every caller is              *)
(* authenticated and asks for the default action or for the custom one.    *)
(***************************************************************************)
GETTenants(p) ==
    \E route \in Routes,
       customerId \in CustomerIds,
       actionKey \in {"get-equipment", "get-objects"},
       instanceKey \in InstanceKeys \cup {NULL} :
         Request(p, route, customerId, actionKey, instanceKey)

NextTenants ==
    \E p \in Procs :
        \/ NoOverlap(p) /\ GETTenants(p)
        \/ Step(p)

SpecTenants ==
    Init /\ [][NextTenants]_vars

(***************************************************************************)
(* sendToWebhook, called on its own: one call, from its entry to its       *)
(* result or its error.                                                    *)
(***************************************************************************)
\* sendToWebhook(payload) runs up to its await of fetch
SendToWebhook ==
    /\ hook.pc = "idle"
    /\ \E payload \in Payloads :
         hook' = [ pc            |-> "fetch",
                   payload       |-> payload,
                   recordType    |-> recordTypeOf(payload),
                   isDefaultType |-> isDefaultType(payload),
                   posts         |-> Append(hook.posts,
                                            [ url    |-> webhookUrl(payload),
                                              method |-> "POST",
                                              body   |-> finalPayload(payload) ]) ]
    /\ UNCHANGED << store, inv, source, started, last >>

\* fetch resolves with a response
FetchResolves ==
    /\ hook.pc = "fetch"
    /\ \E ok \in BOOLEAN :
         hook' = [ pc      |-> "done",
                   outcome |-> IF ok
                               THEN [ ok |-> ok, returned |-> "response.json()" ]
                               ELSE [ ok |-> ok, thrown |-> "Webhook failed" ] ] @@ hook
    /\ UNCHANGED << store, inv, source, started, last >>

\* fetch rejects: the error is logged and thrown on
FetchRejects ==
    /\ hook.pc = "fetch"
    /\ hook' = [ pc |-> "done", outcome |-> [ thrown |-> "fetch failed" ] ] @@ hook
    /\ UNCHANGED << store, inv, source, started, last >>

NextWebhook ==
    \/ SendToWebhook
    \/ FetchResolves
    \/ FetchRejects

SpecWebhook ==
    Init /\ [][NextWebhook]_vars


(***************************************************************************)
(* Vocabulary of the properties.                                           *)
(***************************************************************************)
\* the key triple of a stored record
Key(doc) ==
    << Get(doc, "id"), Get(doc, "customerId"), Get(doc, "recordType") >>

\* the events of one kind in the history of an invocation
Events(l, op) ==
    SelectSeq(l.log, LAMBDA e : e.op = op)

Succeeded(l) ==
    l.pc = "done" /\ l.response.status = 200 /\ l.response.body.success

\* the documents of a sequence, as a bag
BagOf(seq) ==
    LET docs == { seq[k] : k \in 1..Len(seq) }
    IN  [ d \in docs |-> Cardinality({ k \in 1..Len(seq) : seq[k] = d }) ]

(***************************************************************************)
(* C1. Imports that run one at a time never leave two stored records with  *)
(* the same (id, customerId, recordType): whatever the tenants, action     *)
(* keys, instance keys and pages, an id repeated inside a page or across   *)
(* pages included.                                                         *)
(***************************************************************************)
\* C1: no two stored records share their key triple
C1_StoreKeysUnique ==
    \A d1, d2 \in BagToSet(store) :
        Key(d1) = Key(d2) => d1 = d2 /\ CopiesIn(d1, store) = 1

\* a second import has succeeded after seeing one id twice, and the store
\* holds several records
C1_Witness ==
    \E p \in Procs :
        /\ Succeeded(inv[p])
        /\ inv[p].n = 2
        /\ \E j, k \in 1..Len(inv[p].allRecords) :
             j < k /\ inv[p].allRecords[j].id = inv[p].allRecords[k].id
        /\ BagCardinality(store) >= 3

(***************************************************************************)
(* C2. An import repeated right after a successful one, with the same      *)
(* tenant, action key and instance key and the same pages from the source, *)
(* inserts nothing: newRecordsCount = 0 and existingRecordsCount is the    *)
(* recordsCount of the first.                                              *)
(***************************************************************************)
SameRequest(l, before) ==
    /\ before.success
    /\ l.route = before.route
    /\ l.customerId = before.customerId
    /\ l.actionKey = before.actionKey
    /\ l.instanceKey = before.instanceKey

\* C2: the import repeated with the same request and the same records finds
\* every record present, inserts nothing and reports 0 new records
C2_RepeatedImportInsertsNothing ==
    \A p \in Procs :
        ( /\ Succeeded(inv[p])
          /\ SameRequest(inv[p], last)
          /\ inv[p].allRecords = last.allRecords )
        => /\ inv[p].inserted = <<>>
           /\ inv[p].store0 = store
           /\ inv[p].response.body.newRecordsCount = 0
           /\ inv[p].response.body.existingRecordsCount = last.recordsCount

\* the repeated import of three records, all new the first time
C2_Witness ==
    \E p \in Procs :
        /\ Succeeded(inv[p])
        /\ SameRequest(inv[p], last)
        /\ inv[p].allRecords = last.allRecords
        /\ last.recordsCount = 3
        /\ BagCardinality(store) = 3
        /\ inv[p].response.body.existingRecordsCount = 3

(***************************************************************************)
(* C3. An authenticated request without an action key, or with a custom    *)
(* action and no instance key, is answered 400 and causes no connection    *)
(* lookup, no external call, no store lookup and no insert.                *)
(***************************************************************************)
InvalidRequest(l) ==
    /\ Truthy(l.customerId)
    /\ \/ ~Truthy(l.actionKey)
       \/ isCustomForm(l.route, l.actionKey) /\ ~Truthy(l.instanceKey)

\* C3: an invalid request of an authenticated caller ends with status 400
\* before any call is issued, and the store is as it was
C3_InvalidRequestRejected ==
    \A p \in Procs :
        (inv[p].pc # "idle" /\ InvalidRequest(inv[p]))
        => /\ inv[p].pc = "done"
           /\ inv[p].response.status = 400
           /\ inv[p].log = <<>>
           /\ inv[p].listing = <<>>
           /\ inv[p].inserted = <<>>
           /\ inv[p].store0 = store

\* both kinds of invalid request have been rejected, the second against a
\* store that holds records
C3_Witness ==
    \E p \in Procs :
        /\ inv[p].pc = "done"
        /\ InvalidRequest(inv[p])
        /\ Truthy(inv[p].actionKey)
        /\ inv[p].response.status = 400
        /\ store # EmptyBag

(***************************************************************************)
(* C4. A request without a customerId is answered 401, whatever its action *)
(* key and instance key, before any connection lookup, external call or    *)
(* store call; the store is unchanged.                                     *)
(***************************************************************************)
\* C4: a request without customerId ends with status 401 before any call is
\* issued, and the store is as it was
C4_UnauthorizedFirst ==
    \A p \in Procs :
        (inv[p].pc # "idle" /\ ~Truthy(inv[p].customerId))
        => /\ inv[p].pc = "done"
           /\ inv[p].response = Unauthorized
           /\ inv[p].log = <<>>
           /\ inv[p].listing = <<>>
           /\ inv[p].inserted = <<>>
           /\ inv[p].store0 = store

\* an unauthenticated request whose action would also need an instance key
C4_Witness ==
    \E p \in Procs :
        /\ inv[p].pc = "done"
        /\ inv[p].customerId = NULL
        /\ isCustomForm(inv[p].route, inv[p].actionKey)
        /\ inv[p].instanceKey = NULL
        /\ inv[p].response.status = 401
        /\ store # EmptyBag

(***************************************************************************)
(* C5. When the tenant has no connection, the import answers               *)
(* {success: false, error: "No connection found"} with a status that is no *)
(* error status, issues no external action call and writes nothing: the    *)
(* store is as it was.                                                     *)
(***************************************************************************)
\* C5: an empty connection listing ends the invocation with the soft answer,
\* no external call and no store write
C5_NoConnectionIsSoft ==
    \A p \in Procs :
        inv[p].listing = << <<>> >>
        => /\ inv[p].pc = "done"
           /\ inv[p].response.body = [success |-> FALSE, error |-> "No connection found"]
           /\ inv[p].response.status < 400
           /\ Events(inv[p], "run") = <<>>
           /\ Events(inv[p], "findOne") = <<>>
           /\ Events(inv[p], "create") = <<>>
           /\ inv[p].inserted = <<>>
           /\ inv[p].store0 = store

\* a valid request found no connection, against a store that holds records
C5_Witness ==
    \E p \in Procs :
        /\ inv[p].listing = << <<>> >>
        /\ inv[p].pc = "done"
        /\ inv[p].response.status = 200
        /\ store # EmptyBag


(***************************************************************************)
(* C6. Cursor chaining. The first external call carries the null cursor,   *)
(* call k+1 carries exactly the cursor call k returned, every call goes to *)
(* the first listed connection, and the loop ends with the first page      *)
(* whose cursor is empty or absent, not with a page without records: for a *)
(* source of cursors c1 .. cn then none, a successful import issues n+1    *)
(* calls and its recordsCount is the number of records of all n+1 pages.   *)
(***************************************************************************)
RECURSIVE SumRecords(_)
SumRecords(pages) ==
    IF pages = <<>> THEN 0 ELSE Head(pages).records + SumRecords(Tail(pages))

Chained(l) ==
    LET runs  == Events(l, "run")
        pages == Events(l, "page")
    IN  /\ Len(pages) <= Len(runs)
        /\ Len(runs) <= Len(pages) + 1
        /\ \A k \in 1..Len(runs) :
             /\ runs[k].connection = l.listing[1][1]
             /\ runs[k].cursor = IF k = 1 THEN NULL ELSE pages[k - 1].cursor
             /\ k > 1 => Truthy(pages[k - 1].cursor)

\* C6: the calls of an invocation are chained, and a successful import made
\* one call per page of the source and counted the records of all pages
C6_CursorChaining ==
    \A p \in Procs :
        /\ inv[p].pc # "idle" => Chained(inv[p])
        /\ Succeeded(inv[p]) =>
             LET runs  == Events(inv[p], "run")
                 pages == Events(inv[p], "page")
             IN  /\ Len(runs) = Len(pages)
                 /\ ~Truthy(pages[Len(pages)].cursor)
                 /\ ~Truthy(source.last)
                 /\ Len(runs) = Len(source.pages)
                 /\ \A k \in 1..(Len(runs) - 1) : runs[k + 1].cursor = CursorNames[k]
                 /\ inv[p].response.body.recordsCount = SumRecords(pages)

\* an import of three pages, the first of them without records, has
\* succeeded
C6_Witness ==
    \E p \in Procs :
        /\ Succeeded(inv[p])
        /\ Len(Events(inv[p], "run")) = 3
        /\ Events(inv[p], "page")[1].records = 0
        /\ Events(inv[p], "page")[1].cursor = "c1"
        /\ inv[p].response.body.recordsCount > 0

(***************************************************************************)
(* C7. The summary of a successful import: recordsCount is the number of   *)
(* raw records of all pages, newRecordsCount the number of rows the        *)
(* invocation added to the store, existingRecordsCount the number of       *)
(* records its lookup found present, and the first is the sum of the other *)
(* two.                                                                    *)
(***************************************************************************)
Found(l) ==
    SelectSeq(l.log, LAMBDA e : e.op = "findOne.result" /\ e.found)

\* C7: the three counts of the summary of a successful import
C7_SummaryAccounting ==
    \A p \in Procs :
        Succeeded(inv[p]) =>
            LET body == inv[p].response.body
            IN  /\ body.recordsCount = Len(inv[p].allRecords)
                /\ body.recordsCount = SumRecords(Events(inv[p], "page"))
                /\ body.newRecordsCount = Len(inv[p].inserted)
                /\ body.newRecordsCount =
                       BagCardinality(store) - BagCardinality(inv[p].store0)
                /\ body.existingRecordsCount = Len(Found(inv[p]))
                /\ body.recordsCount = body.newRecordsCount + body.existingRecordsCount

\* pages of 2 and 1 distinct records into an empty store: 3 / 3 / 0
C7_Witness ==
    \E p \in Procs :
        /\ Succeeded(inv[p])
        /\ inv[p].store0 = EmptyBag
        /\ Len(Events(inv[p], "page")) = 2
        /\ Events(inv[p], "page")[1].records = 2
        /\ Events(inv[p], "page")[2].records = 1
        /\ inv[p].response.body =
               [ success |-> TRUE, recordsCount |-> 3,
                 newRecordsCount |-> 3, existingRecordsCount |-> 0 ]

(***************************************************************************)
(* C8. A failing external call or store operation ends the invocation with *)
(* status 500 and no summary; the rows the invocation inserted before stay *)
(* in the store; nothing is called or written after the failure, and a     *)
(* failed call is not issued again; every invocation starts with the null  *)
(* cursor.                                                                 *)
(***************************************************************************)
Failed(l) ==
    Events(l, "throw") # <<>>

FailureEndsInvocation(l) ==
    Failed(l) =>
        /\ l.pc = "done"
        /\ l.response.status = 500
        /\ "recordsCount" \notin DOMAIN l.response.body
        /\ Len(Events(l, "throw")) = 1
        /\ l.log[Len(l.log)].op = "throw"

InsertedRowsStay(l) ==
    (l.store0 (+) BagOf(l.inserted)) \sqsubseteq store

StartsFromNullCursor(l) ==
    Events(l, "run") # <<>> => Events(l, "run")[1].cursor = NULL

NoCursorTwice(l) ==
    LET runs == Events(l, "run")
    IN  \A j, k \in 1..Len(runs) : j < k => runs[j].cursor # runs[k].cursor

\* a cursor is asked for again only when the source gave it out again
NoCursorTwiceUnlessReturnedTwice(l) ==
    LET runs  == Events(l, "run")
        pages == Events(l, "page")
    IN  \A j, k \in 1..Len(runs) :
            (j < k /\ runs[j].cursor = runs[k].cursor)
            => j > 1 /\ pages[j - 1].cursor = pages[k - 1].cursor

\* C8 as it was stated: a failure ends the invocation with status 500 and
\* keeps the inserted rows, and no cursor is asked for twice in an invocation
C8_AsStated ==
    \A p \in Procs \ { q \in Procs : inv[q].pc = "idle" } :
        /\ FailureEndsInvocation(inv[p])
        /\ InsertedRowsStay(inv[p])
        /\ StartsFromNullCursor(inv[p])
        /\ NoCursorTwice(inv[p])

\* C8, amended: a failure ends the invocation with status 500 and keeps the
\* inserted rows; a cursor is asked for twice only when the source returned
\* it twice
C8_FailureKeepsInsertsAndNeverRetries ==
    \A p \in Procs \ { q \in Procs : inv[q].pc = "idle" } :
        /\ FailureEndsInvocation(inv[p])
        /\ InsertedRowsStay(inv[p])
        /\ StartsFromNullCursor(inv[p])
        /\ Chained(inv[p])
        /\ NoCursorTwiceUnlessReturnedTwice(inv[p])

\* a second invocation failed when it inserted the record of its second
\* page, after inserting the two records of the first page: both rows are in
\* the store
C8_Witness ==
    \E p \in Procs :
        /\ Failed(inv[p])
        /\ inv[p].n = 2
        /\ inv[p].response.status = 500
        /\ Len(Events(inv[p], "page")) = 2
        /\ Events(inv[p], "throw")[1].at = "create"
        /\ Len(inv[p].inserted) = 2
        /\ \A k \in 1..Len(inv[p].inserted) : BagIn(inv[p].inserted[k], store)
        /\ BagCardinality(store) > 2

(***************************************************************************)
(* C9. An import only inserts: in every outcome the rows that were in the  *)
(* store when it started are still there with all their field values,      *)
(* also when the source returns a record with the id of one of them and    *)
(* other field values.                                                     *)
(***************************************************************************)
\* C9: the store of the start of an invocation is contained in the store,
\* which is that store and the rows the invocation inserted
C9_InsertOnly ==
    \A p \in Procs :
        inv[p].pc # "idle" =>
            /\ inv[p].store0 \sqsubseteq store
            /\ store = inv[p].store0 (+) BagOf(inv[p].inserted)

\* an import has seen a record whose row was in the store with other field
\* values, and has finished
C9_Witness ==
    \E p \in Procs :
        /\ inv[p].pc = "done"
        /\ inv[p].allRecords # <<>>
        /\ \E d \in BagToSet(inv[p].store0) :
             \E k \in 1..Len(inv[p].allRecords) :
                /\ Key(d) = Key(inv[p].recordsToSave[1])
                /\ d.id = inv[p].allRecords[k].id
                /\ d.fields # inv[p].allRecords[k].fields
                /\ BagIn(d, store)

(***************************************************************************)
(* C10. Every row an import inserts has as recordType the instance key of  *)
(* the request when its action is a custom one and the action key itself   *)
(* otherwise, and the lookup that precedes the insert asks for that same   *)
(* recordType.                                                             *)
(***************************************************************************)
\* the logical type of an action: its key without the "get-" prefix
LogicalType(actionKey) ==
    Replace(actionKey, "get-", "")

Stamped(l, type) ==
    /\ \A k \in 1..Len(l.inserted) : l.inserted[k].recordType = type
    /\ \A k \in 1..Len(l.log) :
         l.log[k].op = "findOne" => l.log[k].recordType = type

\* C10 as it was stated: a custom action stamps the instance key, any other
\* action its logical type ("equipment" for "get-equipment")
C10_AsStated ==
    \A p \in Procs :
        inv[p].pc # "idle" =>
            Stamped(inv[p], IF isCustomForm(inv[p].route, inv[p].actionKey)
                            THEN inv[p].instanceKey
                            ELSE LogicalType(inv[p].actionKey))

\* C10, amended: a custom action stamps the instance key, any other action
\* the action key itself, and the lookup asks for the same recordType
C10_RecordTypeStamped ==
    \A p \in Procs :
        inv[p].pc # "idle" =>
            Stamped(inv[p], IF isCustomForm(inv[p].route, inv[p].actionKey)
                            THEN inv[p].instanceKey
                            ELSE inv[p].actionKey)

\* the store holds a row of a default action and a row of a custom action,
\* the second inserted by the invocation that has just succeeded
C10_Witness ==
    \E p \in Procs :
        /\ Succeeded(inv[p])
        /\ isCustomForm(inv[p].route, inv[p].actionKey)
        /\ inv[p].inserted # <<>>
        /\ \A k \in 1..Len(inv[p].inserted) : inv[p].inserted[k].recordType = "widgets"
        /\ \E d \in BagToSet(inv[p].store0) : d.recordType = "get-equipment"

(***************************************************************************)
(* C11. Every row an import inserts has a non-empty name: the name of the  *)
(* raw record when it has one, else its id, else "Unnamed Record"; a raw   *)
(* record without a name is stored all the same.                           *)
(***************************************************************************)
\* the name the row of a raw record is to have
NameFallback(raw) ==
    IF Truthy(Get(raw, "name")) THEN raw.name
    ELSE IF Truthy(Get(raw, "id")) THEN raw.id
    ELSE "Unnamed Record"

\* C11: every inserted row has the name of its raw record, or the id of a
\* raw record without a name, and every raw record of a successful import
\* has its row in the store
C11_AsStated ==
    \A p \in Procs :
        inv[p].pc # "idle" =>
            /\ \A k \in 1..Len(inv[p].inserted) :
                 LET d == inv[p].inserted[k]
                 IN  /\ Truthy(Get(d, "name"))
                     /\ \E j \in 1..Len(inv[p].allRecords) :
                          /\ inv[p].allRecords[j].id = d.id
                          /\ d.name = NameFallback(inv[p].allRecords[j])
            /\ Succeeded(inv[p]) =>
                 \A j \in 1..Len(inv[p].allRecords) :
                    \E d \in BagToSet(store) :
                        /\ d.id = inv[p].allRecords[j].id
                        /\ d.customerId = inv[p].customerId

(***************************************************************************)
(* C12. Tenant isolation. Every row an import inserts carries the          *)
(* customerId of the caller, also when the raw record has a customerId or  *)
(* a recordType of its own; the lookup finds only rows of the caller, so   *)
(* the rows of every other tenant stay as they were and the summary is a   *)
(* function of the request, the source and the caller's own rows.          *)
(***************************************************************************)
\* the rows of one tenant
RowsOf(docs, customerId) ==
    LET own == { d \in BagToSet(docs) : Get(d, "customerId") = customerId }
    IN  [ d \in own |-> CopiesIn(d, docs) ]

\* the caller had a row for this id and type when the invocation started
OwnedAtStart(l, id, type) ==
    \E d \in BagToSet(l.store0) :
        /\ Get(d, "id") = id
        /\ Get(d, "customerId") = l.customerId
        /\ Get(d, "recordType") = type

\* C12: inserted rows are the caller's, other tenants' rows are untouched,
\* and what the lookups find and the summary counts follows from the
\* caller's own rows alone
C12_TenantIsolation ==
    \A p \in Procs :
        inv[p].pc # "idle" =>
            LET l       == inv[p]
                type    == IF isCustomForm(l.route, l.actionKey)
                           THEN l.instanceKey ELSE l.actionKey
                results == Events(l, "findOne.result")
                raw     == l.allRecords
            IN  /\ \A k \in 1..Len(l.inserted) :
                     /\ l.inserted[k].customerId = l.customerId
                     /\ l.inserted[k].recordType = type
                /\ \A c \in CustomerIds \ {l.customerId} :
                     RowsOf(store, c) = RowsOf(l.store0, c)
                /\ \A k \in 1..Len(results) :
                     results[k].found <=>
                         \/ OwnedAtStart(l, raw[k].id, type)
                         \/ \E j \in 1..(k - 1) : raw[j].id = raw[k].id
                /\ Succeeded(l) =>
                     l.response.body.newRecordsCount =
                         Cardinality({ raw[k].id : k \in 1..Len(raw) } \
                                     { id \in { raw[k].id : k \in 1..Len(raw) } :
                                           OwnedAtStart(l, id, type) })

\* tenant custA has imported, into a store that held tenant custB's rows
\* for the same ids and type, three records, one of which named custB as
\* its customerId: three rows of custA were inserted
C12_Witness ==
    \E p \in Procs :
        /\ Succeeded(inv[p])
        /\ inv[p].customerId = "custA"
        /\ BagCardinality(inv[p].store0) = 3
        /\ \A d \in BagToSet(inv[p].store0) :
             d.customerId = "custB" /\ d.recordType = "get-equipment"
        /\ inv[p].actionKey = "get-equipment"
        /\ \E k \in 1..Len(inv[p].allRecords) :
             Get(inv[p].allRecords[k], "customerId") = "custB"
        /\ inv[p].response.body.newRecordsCount = 3
        /\ inv[p].response.body.existingRecordsCount = 0
        /\ BagCardinality(RowsOf(store, "custA")) = 3
        /\ RowsOf(store, "custB") = inv[p].store0

(***************************************************************************)
(* C13. The forwarder classifies a record type as the import pipeline      *)
(* does: for every recordType the pipeline can stamp, sendToWebhook takes  *)
(* a payload of that type for a default type exactly when the action that  *)
(* produced it is a default one; a default type is posted to the URL of    *)
(* that type and a custom type to the custom URL.                          *)
(***************************************************************************)
\* the recordType values the import routes stamp, each with the class of
\* the action that produced it, over the requests that pass validation
PipelineStamps ==
    { [ type   |-> RecordType(r.route, r.actionKey, r.instanceKey),
        custom |-> isCustomForm(r.route, r.actionKey) ] :
          r \in { q \in [ route       : Routes,
                          actionKey   : ActionKeys,
                          instanceKey : (HookInstanceKeys \ {""}) \cup {NULL} ] :
                      isCustomForm(q.route, q.actionKey) => Truthy(q.instanceKey) } }

\* C13: the forwarder's class and endpoint of a payload agree with the class
\* of every action that stamps the payload's record type
C13_AsStated ==
    hook.pc # "idle" =>
        \A s \in PipelineStamps :
            s.type = hook.recordType =>
                /\ hook.isDefaultType = ~s.custom
                /\ LET url == hook.posts[Len(hook.posts)].url
                   IN  IF s.custom THEN url = WEBHOOK_URLS.custom
                       ELSE /\ LogicalType(s.type) \in DOMAIN WEBHOOK_URLS \ {"custom"}
                            /\ url = WEBHOOK_URLS[LogicalType(s.type)]

(***************************************************************************)
(* C14. The body sendToWebhook posts has every property of the payload     *)
(* unchanged; for a record type that is no default type it has an          *)
(* instanceKey property with that type (an empty one when the payload      *)
(* names no type), for a default type nothing is added. One call makes one *)
(* POST, and a response that is not OK makes the call throw.               *)
(***************************************************************************)
\* C14: the posted body, the single POST and the outcome of a call
C14_PayloadShape ==
    hook.pc # "idle" =>
        LET payload == hook.payload
            post    == hook.posts[Len(hook.posts)]
            default == \E k \in 1..Len(RECORD_ACTIONS) :
                          /\ RECORD_ACTIONS[k].type = "default"
                          /\ RECORD_ACTIONS[k].key = Get(payload, "instanceKey")
        IN  /\ Len(hook.posts) = 1
            /\ post.method = "POST"
            /\ \A k \in DOMAIN payload :
                 k \in DOMAIN post.body /\ post.body[k] = payload[k]
            /\ DOMAIN post.body \subseteq DOMAIN payload \cup {"instanceKey"}
            /\ default => post.body = payload
            /\ ~default =>
                 /\ "instanceKey" \in DOMAIN post.body
                 /\ post.body.instanceKey =
                        IF "instanceKey" \in DOMAIN payload THEN payload.instanceKey ELSE ""
            /\ hook.pc = "done" /\ "ok" \in DOMAIN hook.outcome =>
                 IF hook.outcome.ok
                 THEN "returned" \in DOMAIN hook.outcome /\ "thrown" \notin DOMAIN hook.outcome
                 ELSE "thrown" \in DOMAIN hook.outcome /\ "returned" \notin DOMAIN hook.outcome

\* the event of a record of the custom type "widgets" was posted once, with
\* its instanceKey, and the call threw on a response that was not OK
C14_Witness ==
    /\ hook.pc = "done"
    /\ hook.payload.type = "updated"
    /\ Get(hook.payload, "instanceKey") = "widgets"
    /\ Len(hook.posts) = 1
    /\ hook.posts[1].body.instanceKey = "widgets"
    /\ hook.posts[1].body.data = hook.payload.data
    /\ hook.posts[1].url = WEBHOOK_URLS.custom
    /\ "ok" \in DOMAIN hook.outcome
    /\ ~hook.outcome.ok
    /\ hook.outcome.thrown = "Webhook failed"

(***************************************************************************)
(* C15. Two imports of one tenant and record type that overlap can both    *)
(* look a record up, both find it absent and both insert it: the store     *)
(* then holds two rows with one (id, customerId, recordType), and both     *)
(* invocations count the record as new.                                    *)
(***************************************************************************)
\* the lookups of an invocation that found nothing
Absent(l) ==
    SelectSeq(l.log, LAMBDA e : e.op = "findOne.result" /\ ~e.found)

\* the rows of the store with one key triple
Copies(key) ==
    BagCardinality([ d \in { e \in BagToSet(store) : Key(e) = key } |->
                        CopiesIn(d, store) ])

\* C15: the store is what the invocations inserted, each insert follows a
\* lookup of that invocation that found nothing and is counted as new by
\* it, no invocation inserts a key twice, and a key is in the store twice
\* only when both invocations inserted it
C15_DuplicateInsertRace ==
    /\ store = BagOf(inv[1].inserted) (+) BagOf(inv[2].inserted)
    /\ \A p \in Procs :
         /\ inv[p].newRecordsCount = Len(inv[p].inserted)
         /\ Len(inv[p].inserted) <= Len(Absent(inv[p]))
         /\ \A j, k \in 1..Len(inv[p].inserted) :
              j < k => Key(inv[p].inserted[j]) # Key(inv[p].inserted[k])
    /\ \A d \in BagToSet(store) :
         /\ Copies(Key(d)) <= Cardinality(Procs)
         /\ Copies(Key(d)) > 1 =>
              \A p \in Procs :
                 \E k \in 1..Len(inv[p].inserted) : Key(inv[p].inserted[k]) = Key(d)

\* both invocations have succeeded, both report every record as new, and
\* the store holds two rows for one key
C15_Witness ==
    /\ \A p \in Procs :
         /\ Succeeded(inv[p])
         /\ inv[p].response.body.newRecordsCount = 2
         /\ inv[p].response.body.existingRecordsCount = 0
         /\ inv[p].inserted[1].id = "e1"
    /\ Copies(<< "e1", "custA", "get-equipment" >>) = 2
    /\ BagCardinality(store) = 4

(***************************************************************************)
(* C16. Within one invocation the awaits follow one another: a call is     *)
(* issued only when the call before it has resolved, the records are       *)
(* looked up, and inserted when absent, in the order of the source, and    *)
(* the call for the next page is issued only when every record of the      *)
(* pages before it has been looked up and, if absent, inserted.            *)
(***************************************************************************)
\* the number of events of one kind among the first k events
Before(l, k, op) ==
    Cardinality({ j \in 1..(k - 1) : l.log[j].op = op })

\* every call is followed by its resolution, and nothing else is issued
\* while it is outstanding
OneAtATime(l) ==
    \A k \in 1..(Len(l.log) - 1) :
        LET e == l.log[k]
            f == l.log[k + 1]
        IN  /\ e.op = "connections.find" => f.op \in {"run", "throw"}
            /\ e.op = "run" => f.op \in {"page", "throw"}
            /\ e.op = "findOne" => f.op \in {"findOne.result", "throw"}
            /\ e.op = "create" => f.op \in {"create.result", "throw"}
            /\ e.op = "findOne.result" /\ ~e.found =>
                 f.op = "create" /\ Get(f.record, "id") = l.log[k - 1].id
            /\ e.op = "findOne.result" /\ e.found => f.op \in {"findOne", "run"}
            /\ e.op = "create.result" => f.op \in {"findOne", "run"}
            /\ e.op = "throw" => FALSE

\* the lookups, and the inserts, come in the order of the records
InSourceOrder(l) ==
    LET lookups == Events(l, "findOne")
        creates == Events(l, "create")
    IN  /\ Len(lookups) <= Len(l.allRecords)
        /\ \A j \in 1..Len(lookups) : lookups[j].id = l.allRecords[j].id
        /\ \A j \in 1..Len(creates) :
             \E k \in j..Len(lookups) :
                /\ Get(creates[j].record, "id") = lookups[k].id
                /\ Len(SelectSeq(SubSeq(Events(l, "findOne.result"), 1, k),
                                 LAMBDA e : ~e.found)) = j

\* when a call is issued, the records of all pages so far are done with
PagesComplete(l) ==
    \A k \in 1..Len(l.log) :
        l.log[k].op = "run" =>
            LET pages == SubSeq(Events(l, "page"), 1, Before(l, k, "page"))
            IN  /\ Before(l, k, "page") = Before(l, k, "run")
                /\ Before(l, k, "findOne.result") = SumRecords(pages)
                /\ Before(l, k, "findOne") = SumRecords(pages)
                /\ Before(l, k, "create.result") = Before(l, k, "create")
                /\ Before(l, k, "create") =
                       Cardinality({ j \in 1..(k - 1) :
                                        /\ l.log[j].op = "findOne.result"
                                        /\ ~l.log[j].found })

\* C16: the calls of an invocation are issued one at a time, in the order of
\* the source, page after page
C16_PageByPage ==
    \A p \in Procs :
        inv[p].pc # "idle" =>
            /\ OneAtATime(inv[p])
            /\ InSourceOrder(inv[p])
            /\ PagesComplete(inv[p])

\* an import of three pages has succeeded: five lookups in the order of the
\* source, some of them finding the row, some followed by an insert
C16_Witness ==
    \E p \in Procs :
        /\ Succeeded(inv[p])
        /\ Len(Events(inv[p], "run")) = 3
        /\ Len(Events(inv[p], "findOne")) = 5
        /\ Len(Found(inv[p])) >= 2
        /\ Len(Events(inv[p], "create.result")) >= 1
        /\ \E q \in Procs \ {p} : inv[q].pc \notin {"idle", "done"}

(***************************************************************************)
(* C17. Termination depends on the source alone. An invocation that has    *)
(* issued its first call returns when the source ends its cursor or a call *)
(* fails; as long as every call succeeds and comes with a cursor, it does  *)
(* not return and the next call is issued: no page cap, no timeout and no  *)
(* cancellation end it.                                                    *)
(***************************************************************************)
\* the invocation passed validation and found a connection
InLoop(l) ==
    Events(l, "run") # <<>>

\* the handler waits for a call to resolve
Pending(l) ==
    l.pc \in {"run", "findOne", "create"}

\* the cursor of the source never ends
Endless ==
    Truthy(source.last)

\* in the loop, without a failure and without a page that ends the cursor,
\* the handler has not returned, and a page that is done with is followed
\* by the next call
KeepsCalling(l) ==
    LET pages == Events(l, "page")
    IN  ( /\ InLoop(l)
          /\ ~Failed(l)
          /\ \A k \in 1..Len(pages) : Truthy(pages[k].cursor) )
        => /\ Pending(l)
           /\ l.pc = "run" <=> Len(Events(l, "run")) = Len(pages) + 1

\* the handler returns from the loop only with the summary, after the page
\* that ended the cursor, or with the error of a failed call
ReturnsOnlyAtTheEnd(l) ==
    (InLoop(l) /\ l.pc = "done") =>
        \/ /\ Failed(l)
           /\ l.response.status = 500
        \/ /\ Succeeded(l)
           /\ ~Truthy(Events(l, "page")[Len(Events(l, "page"))].cursor)

\* C17: with a source that ends its cursor the invocation returns; without
\* a failure and without the end of the cursor it does not return and goes
\* on calling
C17_TerminationBySource ==
    /\ \A p \in Procs : (InLoop(inv[p]) /\ ~Endless) ~> (inv[p].pc = "done")
    /\ [](\A p \in Procs : KeepsCalling(inv[p]) /\ ReturnsOnlyAtTheEnd(inv[p]))
    /\ [](\A p \in Procs : /\ Endless => ~Succeeded(inv[p])
                           /\ Failed(inv[p]) => inv[p].pc = "done")

\* against a source whose cursor never ends an invocation has issued as many
\* calls as the model lets it, none has failed, and it waits for the next
\* page
C17_Witness ==
    \E p \in Procs :
        /\ Endless
        /\ ~Failed(inv[p])
        /\ inv[p].pc = "run"
        /\ Len(Events(inv[p], "run")) = MaxCalls
        /\ Len(Events(inv[p], "page")) = MaxCalls - 1

(***************************************************************************)
(* C18. Classification by naming convention. The import route that reads   *)
(* RECORD_ACTIONS takes an action key for a custom one if and only if it   *)
(* starts with "get-" and what follows the prefix is not empty and is not  *)
(* the name of a default type (the key of a default action without its     *)
(* prefix); a default action never needs an instance key; the class        *)
(* follows from the action key alone.                                      *)
(***************************************************************************)
\* the names of the configured default types
DefaultTypeNames ==
    { Substring(RECORD_ACTIONS[k].key, 4) :
          k \in { j \in 1..Len(RECORD_ACTIONS) :
                      /\ RECORD_ACTIONS[j].type = "default"
                      /\ StartsWith(RECORD_ACTIONS[j].key, "get-") } }

\* the convention as the claim words it
ByConvention(actionKey) ==
    /\ StartsWith(actionKey, "get-")
    /\ Substring(actionKey, 4) \notin DefaultTypeNames

\* the convention, for a prefix that is followed by something
ByConventionNonEmpty(actionKey) ==
    /\ ByConvention(actionKey)
    /\ Substring(actionKey, 4) # ""

\* what shows the class the handler gave the action of a request: without
\* an instance key a custom action is refused with status 400 and any other
\* goes on to the connection lookup; with one, the lookups ask for the
\* instance key when the action is custom and for the action key otherwise
ClassifiedAs(l, custom) ==
    LET lookups == Events(l, "findOne")
        refused == l.pc = "done" /\ l.response.status = 400 /\ l.log = <<>>
    IN  /\ ~Truthy(l.instanceKey) => (custom <=> refused)
        /\ ~Truthy(l.instanceKey) /\ ~custom => l.log # <<>>
        /\ Truthy(l.instanceKey) =>
             /\ l.log # <<>>
             /\ \A k \in 1..Len(lookups) :
                  lookups[k].recordType = IF custom THEN l.instanceKey ELSE l.actionKey

\* C18 as it was stated: custom if and only if the key has the prefix and
\* the rest is no default type name
C18_AsStated ==
    \A p \in Procs :
        (inv[p].pc # "idle" /\ inv[p].route = "A")
        => ClassifiedAs(inv[p], ByConvention(inv[p].actionKey))

\* C18, amended: custom if and only if the key has the prefix, the rest is
\* not empty and is no default type name
C18_ClassifiedByConvention ==
    \A p \in Procs :
        (inv[p].pc # "idle" /\ inv[p].route = "A")
        => /\ ClassifiedAs(inv[p], ByConventionNonEmpty(inv[p].actionKey))
           /\ \A k \in 1..Len(RECORD_ACTIONS) :
                ( /\ RECORD_ACTIONS[k].type = "default"
                  /\ RECORD_ACTIONS[k].key = inv[p].actionKey )
                => inv[p].response.status # 400

\* against a store that holds rows, the action "get-" without an instance
\* key was taken for a default one and its records were stamped "get-"
C18_Witness ==
    \E p \in Procs :
        /\ inv[p].route = "A"
        /\ inv[p].n = 2
        /\ inv[p].store0 # EmptyBag
        /\ inv[p].actionKey = "get-"
        /\ inv[p].instanceKey = NULL
        /\ Succeeded(inv[p])
        /\ inv[p].inserted # <<>>
        /\ inv[p].inserted[1].recordType = "get-"

(***************************************************************************)
(* C19. The rows of default actions and the rows of custom actions are     *)
(* apart: for one tenant, a row inserted by the import of a default action *)
(* and a row inserted by the import of a custom action never have the same *)
(* recordType, whatever the instance key, so neither import counts a       *)
(* record as existing because of a row of the other.                       *)
(***************************************************************************)
\* the invocation follows a successful import of the same tenant whose
\* action was of the other class
AfterOtherClass(l) ==
    /\ l.pc # "idle"
    /\ last.success
    /\ l.n = 2
    /\ last.customerId = l.customerId
    /\ isCustomForm(last.route, last.actionKey) # isCustomForm(l.route, l.actionKey)

\* C19: after the import of an action of the other class, no inserted row
\* has the recordType of a row of that import, and a lookup finds a row only
\* for an id the invocation has seen before
C19_AsStated ==
    \A p \in Procs :
        AfterOtherClass(inv[p]) =>
            LET l       == inv[p]
                results == Events(l, "findOne.result")
            IN  /\ \A d \in BagToSet(l.store0) :
                     \A k \in 1..Len(l.inserted) :
                        d.recordType # l.inserted[k].recordType
                /\ \A k \in 1..Len(results) :
                     results[k].found =>
                        \E j \in 1..(k - 1) : l.allRecords[j].id = l.allRecords[k].id

(***************************************************************************)
(* C20. The two import routes agree on validation and stamping: for every  *)
(* request they answer with the same class of status (401, 400, or going   *)
(* on to the connection lookup), and when they go on they pass the same    *)
(* action key and instance key to the external call and stamp the same     *)
(* recordType, hence look up and insert the same (id, customerId,          *)
(* recordType) triples.                                                    *)
(***************************************************************************)
\* how the validation of a request ended: the status of an early answer,
\* or 0 when the handler went on
ValidationOutcome(l) ==
    IF l.pc = "done" /\ l.log = <<>> THEN l.response.status ELSE 0

\* the request of an invocation, as the other route receives it
OnOtherRoute(l) ==
    [ Idle EXCEPT !.route       = CHOOSE r \in Routes : r # l.route,
                  !.customerId  = l.customerId,
                  !.actionKey   = l.actionKey,
                  !.instanceKey = l.instanceKey ]

\* C20: the other route validates the request of every invocation with the
\* same outcome and stamps the same recordType
C20_AsStated ==
    \A p \in Procs :
        inv[p].pc # "idle" =>
            LET l     == inv[p]
                other == Validate(OnOtherRoute(l))
            IN  /\ ValidationOutcome(other) = ValidationOutcome(l)
                /\ ValidationOutcome(l) = 0 =>
                     /\ \A k \in 1..Len(l.log) :
                          l.log[k].op = "findOne" =>
                             l.log[k].recordType =
                                 RecordType(other.route, other.actionKey, other.instanceKey)
                     /\ \A k \in 1..Len(l.inserted) :
                          l.inserted[k].recordType =
                              RecordType(other.route, other.actionKey, other.instanceKey)

====
